---------------------------- MODULE Spec2Model ----------------------------
(***************************************************************************)
(* Model of pkg/imaging/tools.go: the row-parallel image operations Clone, *)
(* Paste, Overlay, OpaqueBounds, OpaqueArea and OpaquePolygon.             *)
(*                                                                         *)
(* A pixel is the tuple <<r, g, b, a>> of its four bytes.  Every offset    *)
(* the code computes into Pix is a multiple of 4 (plus 3 for the alpha     *)
(* byte), so the model counts Pix offsets in pixels: offset i of the model *)
(* is byte offset 4*i of the code and Stride is the width.                 *)
(* Images have their origin at (0,0), as the buffers New, Clone and        *)
(* image.NewNRGBA return.                                                  *)
(***************************************************************************)
EXTENDS Integers, Sequences, FiniteSets, TLC

VARIABLES
  op,         \* the operation under way
  bg,         \* its image argument (img / background)
  fg,         \* the overlay image argument of Paste and Overlay
  pos,        \* the position argument of Paste and Overlay
  opacity,    \* Overlay's opacity, as a numerator over OpDen
  threshold,  \* the threshold argument of the Opaque* operations
  n,          \* OpaquePolygon's n
  nanByte,    \* what this build's uint8(NaN) conversion gives (-1: not yet seen)
  pc,         \* where the calling goroutine is
  dst,        \* dst.Pix, indexed from 0 in pixels
  chan,       \* the rows still in parallel's channel
  nw,         \* the number of worker goroutines parallel started
  wk,         \* each worker goroutine: its row, column and registers
  shared,     \* the variables the callbacks share (out, first, numPixelsOpaque),
              \* div0: whether a division by a zero coefSum was executed,
              \* divided: whether OpaquePolygon divided by n-1
  delivered,  \* how often each row was received from the channel
  touched     \* per row, the Pix offsets its callback accessed and wrote

vars == <<op, bg, fg, pos, opacity, threshold, n, nanByte, pc, dst, chan, nw,
          wk, shared, delivered, touched>>

(* ------------------------------ bounds --------------------------------- *)

MaxW == 2      \* widest image
MaxH == 2      \* tallest image
NumProcs == 2  \* runtime.GOMAXPROCS(0)
OpDen == 2     \* opacities are k/OpDen
MaxN == 3      \* largest n of OpaquePolygon

MaxU8 == 255

(* ------------------------------ helpers -------------------------------- *)

Min2(a, b) == IF a < b THEN a ELSE b
Max2(a, b) == IF a > b THEN a ELSE b

Zero == <<0, 0, 0, 0>>

\* image.NewNRGBA(image.Rect(0, 0, w, h)).Pix: w*h zero pixels
NewPix(w, h) == [i \in 0..(w * h - 1) |-> Zero]

Workers == 1..NumProcs
Idle == [st |-> "idle", y |-> 0, x |-> 0, i |-> 0, t |-> 0, f |-> FALSE]
NoShared == [minX |-> 0, minY |-> 0, maxX |-> 0, maxY |-> 0,
             first |-> TRUE, count |-> 0, points |-> <<>>, div0 |-> FALSE,
             divided |-> FALSE]
RowIds == (0 - 1)..(Max2(Max2(MaxH, MaxN), 4) + 1)
NoRows == [y \in RowIds |-> 0]
NoTouch == [y \in RowIds |-> [rw |-> {}, wr |-> {}]]

(* ------------------------- the row executor ---------------------------- *)

\* the rows lo, lo+1, ..., hi-1 in channel order
RowSeq(lo, hi) == [k \in 1..Max2(hi - lo, 0) |-> lo + k - 1]

\* the worker count of parallel(lo, hi, fn)
ProcsFor(lo, hi) == IF hi - lo < 1 THEN 0 ELSE Min2(NumProcs, hi - lo)

\* parallel(lo, hi, fn) starts: the rows are queued and the workers started
ParStart(lo, hi) ==
  /\ chan' = RowSeq(lo, hi)
  /\ nw' = ProcsFor(lo, hi)
  /\ wk' = [w \in Workers |-> Idle]
  /\ delivered' = NoRows
  /\ touched' = NoTouch

\* the join barrier of parallel: the channel is drained and every worker is
\* back at its receive with nothing to receive
Joined == chan = <<>> /\ \A w \in Workers : wk[w].st = "idle"

\* for y := range ys: worker w receives the next row
Recv(w) ==
  /\ pc \in {"clone", "rows"}
  /\ w \in 1..nw
  /\ wk[w].st = "idle"
  /\ chan # <<>>
  /\ wk' = [wk EXCEPT ![w] = [Idle EXCEPT !.st = "row", !.y = Head(chan)]]
  /\ chan' = Tail(chan)
  /\ delivered' = [delivered EXCEPT ![Head(chan)] = @ + 1]
  /\ UNCHANGED <<op, bg, fg, pos, opacity, threshold, n, nanByte, pc, dst, nw,
                 shared, touched>>

\* the callback of row y accessed the offsets rw and wrote the offsets wr
Touch(y, rw, wr) ==
  touched' = [touched EXCEPT ![y] = [rw |-> @.rw \cup rw, wr |-> @.wr \cup wr]]

(* ------------------------------ scanner -------------------------------- *)

\* src.scan(x1, y, x2, y+1, out): the pixels of row y, columns [x1, x2)
Scan(img, x1, y, x2) == [k \in 0..(x2 - x1 - 1) |-> img.pix[y * img.w + x1 + k]]

\* pix with seg copied to the offsets i, i+1, ...
Fill(pix, i, seg) ==
  [j \in DOMAIN pix |-> IF j - i \in DOMAIN seg THEN seg[j - i] ELSE pix[j]]

(* ------------------------------- Clone --------------------------------- *)

\* the row range Clone hands to parallel
CloneLo == 0
CloneHiShort(img) == img.h - 1
CloneHi(img) == img.h

\* Clone's callback for row y: i := y * dst.Stride; scan into dst.Pix[i:i+size]
CloneRowPix(pix, img, y) == Fill(pix, y * img.w, Scan(img, 0, y, img.w))
CloneRowOffsets(img, y) == {y * img.w + k : k \in 0..(img.w - 1)}

\* Clone up to its call of parallel
CloneEnter ==
  /\ dst' = NewPix(bg.w, bg.h)
  /\ ParStart(CloneLo, CloneHi(bg))
  /\ pc' = "clone"
  /\ UNCHANGED <<op, bg, fg, pos, opacity, threshold, n, nanByte, shared>>

CloneCall ==
  /\ op = "Clone"
  /\ pc = "start"
  /\ CloneEnter

CloneRow(w) ==
  /\ pc = "clone"
  /\ wk[w].st = "row"
  /\ dst' = CloneRowPix(dst, bg, wk[w].y)
  /\ Touch(wk[w].y, CloneRowOffsets(bg, wk[w].y), CloneRowOffsets(bg, wk[w].y))
  /\ wk' = [wk EXCEPT ![w] = Idle]
  /\ UNCHANGED <<op, bg, fg, pos, opacity, threshold, n, nanByte, pc, chan, nw,
                 shared, delivered>>

CloneReturn ==
  /\ op = "Clone"
  /\ pc = "clone"
  /\ Joined
  /\ pc' = "done"
  /\ UNCHANGED <<op, bg, fg, pos, opacity, threshold, n, nanByte, dst, chan, nw,
                 wk, shared, delivered, touched>>

(* ------------------------------- Paste --------------------------------- *)

Rect(x0, y0, x1, y1) == [minX |-> x0, minY |-> y0, maxX |-> x1, maxY |-> y1]
ZR == Rect(0, 0, 0, 0)

\* image.Rectangle.Empty
Empty(r) == r.minX >= r.maxX \/ r.minY >= r.maxY

\* image.Rectangle.Intersect
Intersect(r, s) ==
  LET t == Rect(Max2(r.minX, s.minX), Max2(r.minY, s.minY),
                Min2(r.maxX, s.maxX), Min2(r.maxY, s.maxY))
  IN  IF Empty(t) THEN ZR ELSE t

\* pasteRect := image.Rectangle{Min: pos, Max: pos.Add(img.Bounds().Size())}
PasteRect(p, img) == Rect(p[1], p[2], p[1] + img.w, p[2] + img.h)

\* interRect := pasteRect.Intersect(dst.Bounds())
InterRect(p, img, back) == Intersect(PasteRect(p, img), Rect(0, 0, back.w, back.h))

RowStartNoMinX(back, ir, y) == y * back.w

\* i1 := y*dst.Stride + interRect.Min.X*4
RowStart(back, ir, y) == y * back.w + ir.minX

\* the part of overlay row y - pasteRect.Min.Y that falls into interRect
OverlaySeg(img, pr, ir, y) ==
  Scan(img, ir.minX - pr.minX, y - pr.minY, ir.maxX - pr.minX)

\* Paste's callback for row y
PasteRowPix(pix, back, img, p, y) ==
  LET pr == PasteRect(p, img)
      ir == InterRect(p, img, back)
  IN  Fill(pix, RowStart(back, ir, y), OverlaySeg(img, pr, ir, y))

RowOffsets(back, ir, y) == {RowStart(back, ir, y) + k : k \in 0..(ir.maxX - ir.minX - 1)}

PasteCall ==
  /\ op = "Paste"
  /\ pc = "start"
  /\ CloneEnter

\* after dst := Clone(background): the rectangles, and the rows dispatched
PasteDispatch ==
  /\ op = "Paste"
  /\ pc = "clone"
  /\ Joined
  /\ LET ir == InterRect(pos, fg, bg)
     IN  IF Empty(ir)
           THEN /\ pc' = "done"
                /\ UNCHANGED <<chan, nw, wk, delivered, touched>>
           ELSE /\ pc' = "rows"
                /\ ParStart(ir.minY, ir.maxY)
  /\ UNCHANGED <<op, bg, fg, pos, opacity, threshold, n, nanByte, dst, shared>>

PasteRow(w) ==
  /\ op = "Paste"
  /\ pc = "rows"
  /\ wk[w].st = "row"
  /\ dst' = PasteRowPix(dst, bg, fg, pos, wk[w].y)
  /\ LET offs == RowOffsets(bg, InterRect(pos, fg, bg), wk[w].y)
     IN  Touch(wk[w].y, offs, offs)
  /\ wk' = [wk EXCEPT ![w] = Idle]
  /\ UNCHANGED <<op, bg, fg, pos, opacity, threshold, n, nanByte, pc, chan, nw,
                 shared, delivered>>

PasteReturn ==
  /\ op = "Paste"
  /\ pc = "rows"
  /\ Joined
  /\ pc' = "done"
  /\ UNCHANGED <<op, bg, fg, pos, opacity, threshold, n, nanByte, dst, chan, nw,
                 wk, shared, delivered, touched>>

(* ------------------------------ Overlay -------------------------------- *)

\* opacity = math.Min(math.Max(opacity, 0.0), 1.0), as a numerator over OpDen
ClampOpacity(q) == Min2(Max2(q, 0), OpDen)

\* The alpha-over formula of Overlay on one pixel, in exact arithmetic over
\* the common denominator OpDen*255*255:
\*   coef2 = q*a2 / (OpDen*255),  coef1 = (OpDen*255 - q*a2)*a1 / (OpDen*255*255)
\* On the pixels of BgImages and FgImages and the opacities 0, 1/2 and 1 the
\* float64 computation of the code gives the same bytes as this arithmetic.
\* A zero coefSum makes coef1 and coef2 NaN and the three colour bytes
\* uint8(NaN), which the language leaves to the implementation: nb.
Coef2(q, a2) == q * a2 * MaxU8
Coef1NoComplement(q, a1, a2) == OpDen * MaxU8 * a1
Coef1(q, a1, a2) == (OpDen * MaxU8 - q * a2) * a1
CoefSum(q, a1, a2) == Coef1(q, a1, a2) + Coef2(q, a2)

BlendChannel(q, a1, a2, v1, v2, nb) ==
  IF CoefSum(q, a1, a2) = 0
    THEN nb
    ELSE (v1 * Coef1(q, a1, a2) + v2 * Coef2(q, a2)) \div CoefSum(q, a1, a2)

\* uint8(math.Min(a1+a2*opacity*(255-a1)/255, 255))
BlendAlpha(q, a1, a2) ==
  Min2((a1 * OpDen * MaxU8 + a2 * q * (MaxU8 - a1)) \div (OpDen * MaxU8), MaxU8)

OverlayPixel(p1, p2, q, nb) ==
  << BlendChannel(q, p1[4], p2[4], p1[1], p2[1], nb),
     BlendChannel(q, p1[4], p2[4], p1[2], p2[2], nb),
     BlendChannel(q, p1[4], p2[4], p1[3], p2[3], nb),
     BlendAlpha(q, p1[4], p2[4]) >>

\* Overlay's callback for row y, with scanLine the worker's scratch line
OverlayRowPix(pix, back, img, p, q, nb, y) ==
  LET pr == PasteRect(p, img)
      ir == InterRect(p, img, back)
      scanLine == OverlaySeg(img, pr, ir, y)
      i0 == RowStart(back, ir, y)
  IN  [j \in DOMAIN pix |->
         IF j - i0 \in DOMAIN scanLine
           THEN OverlayPixel(pix[j], scanLine[j - i0], q, nb)
           ELSE pix[j]]

\* whether row y divides by a zero coefSum at some pixel
RowDividesByZero(pix, back, img, p, q, y) ==
  LET pr == PasteRect(p, img)
      ir == InterRect(p, img, back)
      scanLine == OverlaySeg(img, pr, ir, y)
      i0 == RowStart(back, ir, y)
  IN  \E k \in DOMAIN scanLine : CoefSum(q, pix[i0 + k][4], scanLine[k][4]) = 0

\* the bytes uint8(NaN) gives on the builds of the compiler
NaNBytes == {0, MaxU8}

OverlayCall ==
  /\ op = "Overlay"
  /\ pc = "start"
  /\ CloneEnter

OverlayDispatch ==
  /\ op = "Overlay"
  /\ pc = "clone"
  /\ Joined
  /\ LET ir == InterRect(pos, fg, bg)
     IN  IF Empty(ir)
           THEN /\ pc' = "done"
                /\ UNCHANGED <<chan, nw, wk, delivered, touched>>
           ELSE /\ pc' = "rows"
                /\ ParStart(ir.minY, ir.maxY)
  /\ UNCHANGED <<op, bg, fg, pos, opacity, threshold, n, nanByte, dst, shared>>

OverlayRow(w) ==
  /\ op = "Overlay"
  /\ pc = "rows"
  /\ wk[w].st = "row"
  /\ LET q == ClampOpacity(opacity)
         nan == RowDividesByZero(dst, bg, fg, pos, q, wk[w].y)
     IN  /\ \E nb \in (IF nan /\ nanByte = 0 - 1 THEN NaNBytes ELSE {nanByte}) :
              /\ nanByte' = nb
              /\ dst' = OverlayRowPix(dst, bg, fg, pos, q, nb, wk[w].y)
         /\ shared' = [shared EXCEPT !.div0 = @ \/ nan]
  /\ LET offs == RowOffsets(bg, InterRect(pos, fg, bg), wk[w].y)
     IN  Touch(wk[w].y, offs, offs)
  /\ wk' = [wk EXCEPT ![w] = Idle]
  /\ UNCHANGED <<op, bg, fg, pos, opacity, threshold, n, pc, chan, nw, delivered>>

OverlayReturn ==
  /\ op = "Overlay"
  /\ pc = "rows"
  /\ Joined
  /\ pc' = "done"
  /\ UNCHANGED <<op, bg, fg, pos, opacity, threshold, n, nanByte, dst, chan, nw,
                 wk, shared, delivered, touched>>

(* ---------------------------- OpaqueBounds ----------------------------- *)

\* worker w goes on to column x + 1 of its row, or back to its receive
\* when the row has no such column
NextColumn(r, width) ==
  IF r.x + 1 < width THEN [r EXCEPT !.st = "loop", !.x = @ + 1] ELSE Idle

\* mu.Lock(); if first { out.Min = (x, y); out.Max = out.Min; first = false }
FirstFound(sh, x, y) ==
  IF sh.first
    THEN [sh EXCEPT !.minX = x, !.minY = y, !.maxX = x, !.maxY = y, !.first = FALSE]
    ELSE sh

ExpandMaxOnly(sh, x, y) ==
  IF ~sh.first
    THEN [sh EXCEPT !.maxX = Max2(x, @), !.maxY = Max2(y, @)]
    ELSE sh

\* mu.Lock(); if !first { out.Min.X = min(x, out.Min.X) ... }
Expand(sh, x, y) ==
  IF ~sh.first
    THEN [sh EXCEPT !.minX = Min2(x, @), !.minY = Min2(y, @),
                    !.maxX = Max2(x, @), !.maxY = Max2(y, @)]
    ELSE sh

\* a > threshold
Exceeds(a, t) == a > t

BoundsCall ==
  /\ op = "OpaqueBounds"
  /\ pc = "start"
  /\ dst' = NewPix(bg.w, bg.h)
  /\ shared' = NoShared
  /\ ParStart(0, bg.h)
  /\ pc' = "rows"
  /\ UNCHANGED <<op, bg, fg, pos, opacity, threshold, n, nanByte>>

\* i := y * dst.Stride; src.scan(0, y, src.w, y+1, dst.Pix[i:i+src.w*4])
BoundsScan(w) ==
  /\ op = "OpaqueBounds"
  /\ pc = "rows"
  /\ wk[w].st = "row"
  /\ dst' = CloneRowPix(dst, bg, wk[w].y)
  /\ Touch(wk[w].y, CloneRowOffsets(bg, wk[w].y), CloneRowOffsets(bg, wk[w].y))
  /\ wk' = [wk EXCEPT ![w] = IF bg.w > 0
                               THEN [@ EXCEPT !.st = "loop", !.i = wk[w].y * bg.w]
                               ELSE Idle]
  /\ UNCHANGED <<op, bg, fg, pos, opacity, threshold, n, nanByte, pc, chan, nw,
                 shared, delivered>>

\* a := dst.Pix[i+3]; i += 4; and the test a > threshold
BoundsLoad(w) ==
  /\ op = "OpaqueBounds"
  /\ pc = "rows"
  /\ wk[w].st = "loop"
  /\ Touch(wk[w].y, {wk[w].i}, {})
  /\ wk' = [wk EXCEPT ![w] =
              IF Exceeds(dst[wk[w].i][4], threshold)
                THEN [@ EXCEPT !.st = "first", !.i = @ + 1]
                ELSE NextColumn([@ EXCEPT !.i = @ + 1], bg.w)]
  /\ UNCHANGED <<op, bg, fg, pos, opacity, threshold, n, nanByte, pc, dst, chan,
                 nw, shared, delivered>>

\* the first locked section
BoundsFirst(w) ==
  /\ op = "OpaqueBounds"
  /\ pc = "rows"
  /\ wk[w].st = "first"
  /\ shared' = FirstFound(shared, wk[w].x, wk[w].y)
  /\ wk' = [wk EXCEPT ![w].st = "expand"]
  /\ UNCHANGED <<op, bg, fg, pos, opacity, threshold, n, nanByte, pc, dst, chan,
                 nw, delivered, touched>>

\* the second locked section
BoundsExpand(w) ==
  /\ op = "OpaqueBounds"
  /\ pc = "rows"
  /\ wk[w].st = "expand"
  /\ shared' = Expand(shared, wk[w].x, wk[w].y)
  /\ wk' = [wk EXCEPT ![w] = NextColumn(@, bg.w)]
  /\ UNCHANGED <<op, bg, fg, pos, opacity, threshold, n, nanByte, pc, dst, chan,
                 nw, delivered, touched>>

BoundsReturn ==
  /\ op = "OpaqueBounds"
  /\ pc = "rows"
  /\ Joined
  /\ pc' = "done"
  /\ UNCHANGED <<op, bg, fg, pos, opacity, threshold, n, nanByte, dst, chan, nw,
                 wk, shared, delivered, touched>>

(* ----------------------------- OpaqueArea ------------------------------ *)

\* i := y * 4
AreaStart(y) == y

AreaCall ==
  /\ op = "OpaqueArea"
  /\ pc = "start"
  /\ dst' = NewPix(bg.w, bg.h)
  /\ shared' = NoShared
  /\ ParStart(0, bg.h)
  /\ pc' = "rows"
  /\ UNCHANGED <<op, bg, fg, pos, opacity, threshold, n, nanByte>>

\* src.scan(0, y, src.w, y+1, dst.Pix[i:i+src.w*4]), one pixel of the copy
AreaScan(w) ==
  /\ op = "OpaqueArea"
  /\ pc = "rows"
  /\ wk[w].st = "row"
  /\ IF bg.w = 0
       THEN /\ wk' = [wk EXCEPT ![w] = Idle]
            /\ UNCHANGED <<dst, touched>>
       ELSE /\ dst' = [dst EXCEPT ![AreaStart(wk[w].y) + wk[w].x] =
                                     bg.pix[wk[w].y * bg.w + wk[w].x]]
            /\ Touch(wk[w].y, {AreaStart(wk[w].y) + wk[w].x},
                     {AreaStart(wk[w].y) + wk[w].x})
            /\ wk' = [wk EXCEPT ![w] =
                        IF wk[w].x + 1 < bg.w
                          THEN [@ EXCEPT !.x = @ + 1]
                          ELSE [@ EXCEPT !.st = "loop", !.x = 0,
                                         !.i = AreaStart(wk[w].y)]]
  /\ UNCHANGED <<op, bg, fg, pos, opacity, threshold, n, nanByte, pc, chan, nw,
                 shared, delivered>>

\* i += 4; a := dst.Pix[i+3]; and the test a > threshold.  An index past the
\* end of Pix panics.
AreaLoad(w) ==
  /\ op = "OpaqueArea"
  /\ pc = "rows"
  /\ wk[w].st = "loop"
  /\ IF wk[w].i + 1 \in DOMAIN dst
       THEN /\ Touch(wk[w].y, {wk[w].i + 1}, {})
            /\ wk' = [wk EXCEPT ![w] =
                        IF Exceeds(dst[wk[w].i + 1][4], threshold)
                          THEN [@ EXCEPT !.st = "inc", !.i = @ + 1]
                          ELSE NextColumn([@ EXCEPT !.i = @ + 1], bg.w)]
            /\ pc' = pc
       ELSE /\ pc' = "panic"
            /\ UNCHANGED <<wk, touched>>
  /\ UNCHANGED <<op, bg, fg, pos, opacity, threshold, n, nanByte, dst, chan, nw,
                 shared, delivered>>

\* numPixelsOpaque++, the load
AreaRead(w) ==
  /\ op = "OpaqueArea"
  /\ pc = "rows"
  /\ wk[w].st = "inc"
  /\ wk' = [wk EXCEPT ![w] = [@ EXCEPT !.st = "store", !.t = shared.count]]
  /\ UNCHANGED <<op, bg, fg, pos, opacity, threshold, n, nanByte, pc, dst, chan,
                 nw, shared, delivered, touched>>

\* numPixelsOpaque++, the store
AreaWrite(w) ==
  /\ op = "OpaqueArea"
  /\ pc = "rows"
  /\ wk[w].st = "store"
  /\ shared' = [shared EXCEPT !.count = wk[w].t + 1]
  /\ wk' = [wk EXCEPT ![w] = NextColumn(@, bg.w)]
  /\ UNCHANGED <<op, bg, fg, pos, opacity, threshold, n, nanByte, pc, dst, chan,
                 nw, delivered, touched>>

AreaReturn ==
  /\ op = "OpaqueArea"
  /\ pc = "rows"
  /\ Joined
  /\ pc' = "done"
  /\ UNCHANGED <<op, bg, fg, pos, opacity, threshold, n, nanByte, dst, chan, nw,
                 wk, shared, delivered, touched>>

(* ---------------------------- OpaquePolygon ---------------------------- *)

\* bounds := OpaqueBounds(img, threshold), its rows taken one after the other
RECURSIVE BoundsFrom(_, _, _, _)
BoundsFrom(sh, img, t, i) ==
  IF i >= img.w * img.h THEN sh
  ELSE BoundsFrom(IF Exceeds(img.pix[i][4], t)
                    THEN Expand(FirstFound(sh, i % img.w, i \div img.w),
                                i % img.w, i \div img.w)
                    ELSE sh,
                  img, t, i + 1)

Dx(sh) == sh.maxX - sh.minX
Dy(sh) == sh.maxY - sh.minY

\* y := int(math.Floor(float64(bounds.Min.Y) + float64(k)*yStep)) with
\* yStep = float64(bounds.Dy()-1) / float64(n-1), for n >= 2
SampleRow(sh, k, nn) == sh.minY + ((k * (Dy(sh) - 1)) \div (nn - 1))

\* With n = 1 yStep is an infinity or NaN, k*yStep is NaN, and int(NaN) is
\* left to the implementation: any row.
SampleRows(sh, k, nn, img) ==
  IF nn >= 2 THEN {SampleRow(sh, k, nn)} ELSE (0 - 1)..img.h

\* i := (y - bounds.Min.Y) * 4 * w
SampleStart(sh, y) == (y - sh.minY) * Dx(sh)

ZeroPoints(nn) == [j \in 1..(2 * nn) |-> <<0, 0>>]

\* OpaquePolygon up to its call of parallel; make([]image.Point, 2*n) panics
\* for a negative n
PolyCall ==
  /\ op = "OpaquePolygon"
  /\ pc = "start"
  /\ dst' = NewPix(bg.w, bg.h)
  /\ IF n < 0
       THEN /\ pc' = "panic"
            /\ shared' = BoundsFrom(NoShared, bg, threshold, 0)
            /\ UNCHANGED <<chan, nw, wk, delivered, touched>>
       ELSE /\ pc' = "rows"
            /\ shared' = [BoundsFrom(NoShared, bg, threshold, 0) EXCEPT
                            !.points = ZeroPoints(n), !.divided = TRUE]
            /\ ParStart(0, n)
  /\ UNCHANGED <<op, bg, fg, pos, opacity, threshold, n, nanByte>>

\* the sample row y of k, i, and the slice dst.Pix[i:i+w*4]; a slice out of
\* the bounds of Pix panics, and so does a scan of a row the image has not
\* (a scan of no pixel of such a row may also do nothing)
PolySample(w) ==
  /\ op = "OpaquePolygon"
  /\ pc = "rows"
  /\ wk[w].st = "row"
  /\ \E y \in SampleRows(shared, wk[w].y, n, bg), scanPanics \in BOOLEAN :
       LET i == SampleStart(shared, y)
           sliceOk == 0 <= i /\ i + Dx(shared) <= bg.w * bg.h
           rowOk == y \in 0..(bg.h - 1)
       IN  /\ (rowOk \/ Dx(shared) > 0) => scanPanics = ~rowOk
           /\ IF sliceOk /\ ~scanPanics
                THEN /\ pc' = pc
                     /\ wk' = [wk EXCEPT ![w] =
                                 IF Dx(shared) > 0
                                   THEN [@ EXCEPT !.st = "scan", !.t = y, !.i = i]
                                   ELSE Idle]
                ELSE /\ pc' = "panic"
                     /\ wk' = wk
  /\ UNCHANGED <<op, bg, fg, pos, opacity, threshold, n, nanByte, dst, chan, nw,
                 shared, delivered, touched>>

\* src.scan(bounds.Min.X, y, bounds.Max.X, y+1, dst.Pix[i:i+w*4]), one pixel
PolyScan(w) ==
  /\ op = "OpaquePolygon"
  /\ pc = "rows"
  /\ wk[w].st = "scan"
  /\ dst' = [dst EXCEPT ![wk[w].i + wk[w].x] =
                          bg.pix[wk[w].t * bg.w + shared.minX + wk[w].x]]
  /\ Touch(wk[w].y, {wk[w].i + wk[w].x}, {wk[w].i + wk[w].x})
  /\ wk' = [wk EXCEPT ![w] =
              IF wk[w].x + 1 < Dx(shared)
                THEN [@ EXCEPT !.x = @ + 1]
                ELSE [@ EXCEPT !.st = "loop", !.x = shared.minX]]
  /\ UNCHANGED <<op, bg, fg, pos, opacity, threshold, n, nanByte, pc, chan, nw,
                 shared, delivered>>

\* one turn of the loop over x: i += 4; a := dst.Pix[i+3]; the points
PolyLoad(w) ==
  /\ op = "OpaquePolygon"
  /\ pc = "rows"
  /\ wk[w].st = "loop"
  /\ IF wk[w].i + 1 \in DOMAIN dst
       THEN LET a == dst[wk[w].i + 1][4]
                k == wk[w].y
                pt == <<wk[w].x, wk[w].t>>
                r == [wk[w] EXCEPT !.i = @ + 1]
            IN  /\ Touch(k, {wk[w].i + 1}, {})
                /\ pc' = pc
                /\ IF ~Exceeds(a, threshold)
                     THEN /\ shared' = shared
                          /\ wk' = [wk EXCEPT ![w] = NextColumn(r, shared.maxX)]
                     ELSE /\ shared' =
                               [shared EXCEPT !.points =
                                  [j \in DOMAIN @ |->
                                     IF j = n + k + 1 THEN pt
                                     ELSE IF j = n - k /\ ~wk[w].f THEN pt
                                     ELSE @[j]]]
                          /\ wk' = [wk EXCEPT ![w] =
                                      NextColumn([r EXCEPT !.f = TRUE], shared.maxX)]
       ELSE /\ pc' = "panic"
            /\ UNCHANGED <<wk, shared, touched>>
  /\ UNCHANGED <<op, bg, fg, pos, opacity, threshold, n, nanByte, dst, chan, nw,
                 delivered>>

PolyReturn ==
  /\ op = "OpaquePolygon"
  /\ pc = "rows"
  /\ Joined
  /\ pc' = "done"
  /\ UNCHANGED <<op, bg, fg, pos, opacity, threshold, n, nanByte, dst, chan, nw,
                 wk, shared, delivered, touched>>

(* ------------------------------ inputs --------------------------------- *)

\* alpha classes of the pixels: fully transparent, half, fully opaque
Alphas == {0, 128, MaxU8}

\* a background of size w x h whose row y has alpha al[y]; the colour of a
\* pixel is non-zero and tells where the pixel is
BgImage(w, h, al) ==
  [w |-> w, h |-> h,
   pix |-> [i \in 0..(w * h - 1) |-> <<1 + i, 40 + i, 80 + i, al[i \div w]>>]]

BgImages ==
  {BgImage(w, h, al) : w \in 0..MaxW, h \in 0..MaxH, al \in [0..(MaxH - 1) -> Alphas]}

StartState(o) ==
  /\ op = o
  /\ pc = "start"
  /\ dst = <<>>
  /\ chan = <<>>
  /\ nw = 0
  /\ wk = [w \in Workers |-> Idle]
  /\ shared = NoShared
  /\ delivered = NoRows
  /\ touched = NoTouch

NoOverlayArgs ==
  /\ fg = [w |-> 0, h |-> 0, pix |-> <<>>]
  /\ pos = <<0, 0>>
  /\ opacity = 0
  /\ nanByte = 0

NoOpaqueArgs ==
  /\ threshold = 0
  /\ n = 0

InitClone ==
  /\ StartState("Clone")
  /\ bg \in BgImages
  /\ NoOverlayArgs
  /\ NoOpaqueArgs

\* an overlay of size w x h, all of alpha a; the colour tells where the pixel is
FgImage(w, h, a) ==
  [w |-> w, h |-> h,
   pix |-> [i \in 0..(w * h - 1) |-> <<201 + i, 150 + i, 100 + i, a>>]]

FgImages == {FgImage(w, h, a) : w \in 1..MaxW, h \in 1..MaxH, a \in Alphas}

\* the overlay one pixel left of or above the origin, at it, and one pixel
\* right of or below it: clipped on either side, or wholly outside
Positions == ((0 - 1)..1) \X ((0 - 1)..1)

FullBgImages == {b \in BgImages : b.w = MaxW /\ b.h = MaxH}

InitPaste ==
  /\ StartState("Paste")
  /\ bg \in BgImages
  /\ fg \in FgImages
  /\ pos \in Positions
  /\ opacity = 0
  /\ nanByte = 0
  /\ NoOpaqueArgs

InitOverlay ==
  /\ StartState("Overlay")
  /\ bg \in FullBgImages
  /\ fg \in FgImages
  /\ pos \in Positions
  /\ opacity \in 0..OpDen
  /\ nanByte = 0 - 1
  /\ NoOpaqueArgs

NextPaste ==
  \/ PasteCall
  \/ \E w \in Workers : Recv(w)
  \/ \E w \in Workers : CloneRow(w)
  \/ PasteDispatch
  \/ \E w \in Workers : PasteRow(w)
  \/ PasteReturn

SpecPaste == InitPaste /\ [][NextPaste]_vars

NextOverlay ==
  \/ OverlayCall
  \/ \E w \in Workers : Recv(w)
  \/ \E w \in Workers : CloneRow(w)
  \/ OverlayDispatch
  \/ \E w \in Workers : OverlayRow(w)
  \/ OverlayReturn

SpecOverlay == InitOverlay /\ [][NextOverlay]_vars

\* the w x h image whose pixel i has alpha al[i]
AlphaImage(w, h, al) ==
  [w |-> w, h |-> h, pix |-> [i \in 0..(w * h - 1) |-> <<0, 0, 0, al[i]>>]]

\* the 4x4 fully transparent image with one opaque pixel at (1,2)
OnePixelImage == AlphaImage(4, 4, [i \in 0..15 |-> IF i = 2 * 4 + 1 THEN MaxU8 ELSE 0])

\* The arguments <<img, threshold>> of the Opaque* operations: every image
\* up to mw x mh of pixels of alpha 10 and 255 with threshold 10, the fully
\* transparent and the fully opaque ones with threshold 0, and the image
\* above with threshold 10.
OpaqueArgs(mw, mh) ==
  UNION {{<<AlphaImage(w, h, al), 10>> : al \in [0..(w * h - 1) -> {10, MaxU8}]}
           \cup {<<AlphaImage(w, h, [i \in 0..(w * h - 1) |-> a]), 0>> : a \in {0, MaxU8}} :
         w \in 0..mw, h \in 0..mh}
  \cup {<<OnePixelImage, 10>>}

InitOpaque(o, mw, mh) ==
  /\ StartState(o)
  /\ \E a \in OpaqueArgs(mw, mh) :
       /\ bg = a[1]
       /\ threshold = a[2]
  /\ NoOverlayArgs

InitBounds ==
  /\ InitOpaque("OpaqueBounds", MaxW, MaxH)
  /\ n = 0

InitArea ==
  /\ InitOpaque("OpaqueArea", MaxW, MaxH)
  /\ n = 0

NextBounds ==
  \/ BoundsCall
  \/ \E w \in Workers : Recv(w)
  \/ \E w \in Workers : BoundsScan(w)
  \/ \E w \in Workers : BoundsLoad(w)
  \/ \E w \in Workers : BoundsFirst(w)
  \/ \E w \in Workers : BoundsExpand(w)
  \/ BoundsReturn

SpecBounds == InitBounds /\ [][NextBounds]_vars

NextArea ==
  \/ AreaCall
  \/ \E w \in Workers : Recv(w)
  \/ \E w \in Workers : AreaScan(w)
  \/ \E w \in Workers : AreaLoad(w)
  \/ \E w \in Workers : AreaRead(w)
  \/ \E w \in Workers : AreaWrite(w)
  \/ AreaReturn

SpecArea == InitArea /\ [][NextArea]_vars

InitPolygon ==
  /\ InitOpaque("OpaquePolygon", MaxW + 1, MaxH + 1)
  /\ n \in (0 - 1)..MaxN

NextPolygon ==
  \/ PolyCall
  \/ \E w \in Workers : Recv(w)
  \/ \E w \in Workers : PolySample(w)
  \/ \E w \in Workers : PolyScan(w)
  \/ \E w \in Workers : PolyLoad(w)
  \/ PolyReturn

SpecPolygon == InitPolygon /\ [][NextPolygon]_vars

NextClone ==
  \/ CloneCall
  \/ \E w \in Workers : Recv(w)
  \/ \E w \in Workers : CloneRow(w)
  \/ CloneReturn

SpecClone == InitClone /\ [][NextClone]_vars

(* ------------------- the operations, run row after row ------------------ *)

RECURSIVE CloneRows(_, _, _, _)
CloneRows(pix, img, y, hi) ==
  IF y >= hi THEN pix ELSE CloneRows(CloneRowPix(pix, img, y), img, y + 1, hi)

\* Clone(img).Pix
CloneImage(img) == CloneRows(NewPix(img.w, img.h), img, CloneLo, CloneHi(img))

RECURSIVE PasteRows(_, _, _, _, _, _)
PasteRows(pix, back, img, p, y, hi) ==
  IF y >= hi THEN pix
  ELSE PasteRows(PasteRowPix(pix, back, img, p, y), back, img, p, y + 1, hi)

\* Paste(back, img, p).Pix
PasteImage(back, img, p) ==
  LET ir == InterRect(p, img, back)
  IN  IF Empty(ir) THEN CloneImage(back)
      ELSE PasteRows(CloneImage(back), back, img, p, ir.minY, ir.maxY)

(* ------------------------------- claims -------------------------------- *)

Opaque(img) == \A i \in DOMAIN img.pix : img.pix[i][4] = MaxU8

\* C8: parallel delivers every row of [lo, hi) to exactly one callback exactly
\* once, delivers nothing when hi <= lo, and the operation returns only after
\* every worker has finished: when Clone returns, each row of [0, h) was
\* received once, no other row was, no worker holds a row, and the buffer
\* holds every row of the image; no row is ever received twice.
C8_RowsDeliveredOnce ==
  /\ \A y \in RowIds : delivered[y] <= 1
  /\ (op = "Clone" /\ pc # "start" /\ bg.h <= 0) =>
        /\ nw = 0
        /\ \A y \in RowIds : delivered[y] = 0
  /\ (op = "Clone" /\ pc = "done") =>
        /\ \A y \in RowIds : delivered[y] = (IF y \in 0..(bg.h - 1) THEN 1 ELSE 0)
        /\ \A w \in Workers : wk[w].st = "idle"
        /\ dst = bg.pix

C8_Witness ==
  /\ op = "Clone"
  /\ pc = "done"
  /\ bg.h = MaxH
  /\ bg.w = MaxW
  /\ delivered[MaxH - 1] = 1

\* C7: Paste returns a buffer of the background's size in which every pixel
\* outside the translated overlay rectangle is the background's pixel and
\* every pixel (x, y) inside it is the overlay's pixel (x - pos.X, y - pos.Y).
C7_PasteFrame ==
  (op = "Paste" /\ pc = "done") =>
     /\ DOMAIN dst = 0..(bg.w * bg.h - 1)
     /\ \A x \in 0..(bg.w - 1), y \in 0..(bg.h - 1) :
          dst[y * bg.w + x] =
            IF /\ pos[1] <= x /\ x < pos[1] + fg.w
               /\ pos[2] <= y /\ y < pos[2] + fg.h
              THEN fg.pix[(y - pos[2]) * fg.w + (x - pos[1])]
              ELSE bg.pix[y * bg.w + x]

C7_Witness ==
  /\ op = "Paste"
  /\ pc = "done"
  /\ bg.w = MaxW /\ bg.h = MaxH
  /\ fg.w = MaxW /\ fg.h = MaxH
  /\ pos = <<1, 0 - 1>>
  /\ dst[0] = bg.pix[0]
  /\ dst[1] = fg.pix[fg.w]

\* C6: with opacity 1.0 and an overlay all of whose pixels have alpha 255,
\* Overlay returns pixel for pixel what Paste returns.
C6_OpaqueOverlayIsPaste ==
  (op = "Overlay" /\ pc = "done" /\ opacity = OpDen /\ Opaque(fg)) =>
     dst = PasteImage(bg, fg, pos)

C6_Witness ==
  /\ op = "Overlay"
  /\ pc = "done"
  /\ opacity = OpDen
  /\ Opaque(fg)
  /\ fg.w = MaxW /\ fg.h = MaxH
  /\ pos = <<0, 0>>
  /\ dst = fg.pix
  /\ dst # bg.pix

\* C5: with opacity 0.0, Overlay returns pixel for pixel (all four channels)
\* what Clone(bg) returns, for every background, overlay and position.
C5_ZeroOpacityIsClone ==
  (op = "Overlay" /\ pc = "done" /\ opacity = 0) => dst = CloneImage(bg)

\* C10: coefSum = coef1 + coef2 is > 0 whenever one of the two pixels is not
\* fully transparent or the opacity is > 0, and Overlay never divides by a
\* coefSum of zero.
C10_CoefSumPositive ==
  /\ shared.div0 = FALSE
  /\ \A w \in Workers :
       (op = "Overlay" /\ pc = "rows" /\ wk[w].st = "row") =>
          LET pr == PasteRect(pos, fg)
              ir == InterRect(pos, fg, bg)
              scanLine == OverlaySeg(fg, pr, ir, wk[w].y)
              i0 == RowStart(bg, ir, wk[w].y)
              q == ClampOpacity(opacity)
          IN  \A k \in DOMAIN scanLine :
                (dst[i0 + k][4] > 0 \/ scanLine[k][4] > 0 \/ q > 0) =>
                   CoefSum(q, dst[i0 + k][4], scanLine[k][4]) > 0

\* the pixels (x, y) of img whose alpha is > t
OpaqueAt(img, t) ==
  {xy \in (0..(img.w - 1)) \X (0..(img.h - 1)) : img.pix[xy[2] * img.w + xy[1]][4] > t}

\* C2: OpaqueBounds returns the zero rectangle when no pixel has alpha >
\* threshold, and otherwise the rectangle whose Min is the component-wise
\* minimum and whose Max is the component-wise maximum of the coordinates of
\* the pixels with alpha > threshold, whatever the interleaving of the rows.
C2_BoundsAreTight ==
  (op = "OpaqueBounds" /\ pc = "done") =>
     LET S == OpaqueAt(bg, threshold)
         out == Rect(shared.minX, shared.minY, shared.maxX, shared.maxY)
     IN  IF S = {}
           THEN out = ZR
           ELSE /\ \A xy \in S : /\ out.minX <= xy[1] /\ xy[1] <= out.maxX
                                 /\ out.minY <= xy[2] /\ xy[2] <= out.maxY
                /\ \E xy \in S : xy[1] = out.minX
                /\ \E xy \in S : xy[1] = out.maxX
                /\ \E xy \in S : xy[2] = out.minY
                /\ \E xy \in S : xy[2] = out.maxY

\* the single opaque pixel at (1,2) gives Min = (1,2), Max = (1,2)
C2_Witness ==
  /\ op = "OpaqueBounds"
  /\ pc = "done"
  /\ bg = OnePixelImage
  /\ threshold = 10
  /\ Rect(shared.minX, shared.minY, shared.maxX, shared.maxY) = Rect(1, 2, 1, 2)

\* C1: OpaqueArea returns exactly the number of pixels whose alpha is >
\* threshold, whatever the interleaving of the rows.
C1_AreaCountsPixels ==
  (op = "OpaqueArea" /\ pc = "done") =>
     shared.count = Cardinality(OpaqueAt(bg, threshold))

\* C9: the bytes a worker reads or writes while it processes row y are
\* disjoint from the bytes any worker writes while it processes another row.
C9_RowsDisjoint ==
  \A y1, y2 \in RowIds :
     y1 # y2 => touched[y1].rw \cap touched[y2].wr = {}

\* C3: OpaquePolygon with n < 2 is rejected with an invalid-argument error:
\* it never divides by n-1, never dispatches row work and never returns a
\* point list.
C3_SmallNRejected ==
  (op = "OpaquePolygon" /\ n < 2 /\ pc # "start") =>
     /\ pc = "invalid-argument"
     /\ ~shared.divided
     /\ \A y \in RowIds : delivered[y] = 0

\* C4: for n >= 2 OpaquePolygon returns 2n points; for the sample k of row
\* y_k = floor(bounds.Min.Y + k*yStep), out[n-1-k] is the leftmost and
\* out[n+k] the rightmost pixel of row y_k within the columns
\* [bounds.Min.X, bounds.Max.X) whose alpha is > threshold, and both are
\* (0,0) when the row has no such pixel.
C4_PolygonEdges ==
  (op = "OpaquePolygon" /\ pc = "done" /\ n >= 2) =>
     /\ Len(shared.points) = 2 * n
     /\ \A k \in 0..(n - 1) :
          LET y == SampleRow(shared, k, n)
              S == IF y \in 0..(bg.h - 1)
                     THEN {x \in shared.minX..(shared.maxX - 1) :
                             bg.pix[y * bg.w + x][4] > threshold}
                     ELSE {}
          IN  IF S = {}
                THEN /\ shared.points[n - k] = <<0, 0>>
                     /\ shared.points[n + k + 1] = <<0, 0>>
                ELSE /\ shared.points[n - k] = <<CHOOSE x \in S : \A z \in S : x <= z, y>>
                     /\ shared.points[n + k + 1] = <<CHOOSE x \in S : \A z \in S : x >= z, y>>

=============================================================================
